---- MODULE Spec2Model ----
(***************************************************************************)
(* Model of tf_skein/_dispatch_task.py: the per-container orchestrator     *)
(* (main), the task launcher (dispatch) and the collaborators they use     *)
(* from tf_skein/_internal.py (KVBarrier, MonitoredThread,                 *)
(* iter_available_sock_addrs, xset_environ).                               *)
(*                                                                         *)
(* One process per task of the run; the processes share only the skein     *)
(* key-value store.  Each process additionally owns one MonitoredThread.   *)
(* Statements that touch only the process's own state are taken together   *)
(* with the next statement that blocks or touches the store.               *)
(***************************************************************************)
EXTENDS Integers, Sequences, FiniteSets, TLC

(* ---------------------------------------------------------------------- *)
(* Run configuration: the arguments --num-workers and --num-ps of main.   *)
(* ---------------------------------------------------------------------- *)
NumWorkers == 2

NumPs == 1

\* Nodes a container can be placed on and the ports a node can hand out.
Hosts == {"h1", "h2"}

Ports == {5000, 5001}

\* Failures a unit of work (tf.estimator.train_and_evaluate) can raise.
Failures == {"E1", "E2"}

\* thread.exception() when nothing was captured (Python None).
NoExc == "None"

\* The empty string, the default payload of KVBarrier.wait; a string that
\* is built from parts is the sequence of its parts.
EmptyString == << >>

\* Values of local variables that are not bound yet.
NoAddr == << >>

NoSpec == << >>

\* The tasks of the run; a task is the container id SKEIN_CONTAINER_ID,
\* "<task_type>_<task_id>", kept as the pair it is split into.
Tasks == ({"worker"} \X (0 .. NumWorkers - 1)) \cup ({"ps"} \X (0 .. NumPs - 1))

\* task_type, task_id = task.split("_", 1); task_id = int(task_id)
TaskType(task) == task[1]

TaskId(task) == task[2]

\* pc       position of each orchestrator process in main/dispatch
\* addr     (host, port) taken from the port allocator by next(it)
\* held     addresses whose sockets the process's open allocator holds
\* kv       the shared key-value store: key -> value
\* spec     the Cluster Spec returned by init_barrier.wait
\* environ  os.environ of the process, as far as main and dispatch use it
\* server   TRUE once dispatch has started tf.train.Server
\* thread   state of the MonitoredThread: "new", "running", "finished"
\* raised   the failure the unit of work raised in its thread, or NoExc
\* exc      the failure the MonitoredThread captured, or NoExc
\* err      the exception main terminated with, or NoExc
VARIABLES pc, addr, held, kv, spec, environ, server, thread, raised, exc, err

\* The state of one port allocator sequence used on its own, as in
\* test_iter_available_sock_addrs, and of the node it runs on.
\* it_state  "open" or "closed": the state of the sequence
\* yielded   the addresses next(it) has returned, in order
\* socks     the addresses whose sockets the sequence holds open
\* foreign   the addresses of the node bound by third parties
\* next_res  how the last next(it) ended
\* bind_log  the last bind((host, port)) of a third party and its result
VARIABLES it_state, yielded, socks, foreign, next_res, bind_log

mainvars == <<pc, addr, held, kv, spec, environ, server, thread, raised, exc, err>>

sockvars == <<it_state, yielded, socks, foreign, next_res, bind_log>>

\* The state of the xset_environ tests (test_xset_environ,
\* test_xset_environ_failure).
\* os_environ   os.environ of the test process
\* xset_kwargs  the keyword arguments of the last xset_environ call
\* xset_res     how that call ended
VARIABLES os_environ, xset_kwargs, xset_res

envvars == <<os_environ, xset_kwargs, xset_res>>

\* The state of an init phase in which two containers carry the same
\* SKEIN_CONTAINER_ID.
\* cpc      the position of each container in main, lines 86-89
\* caddr    host, port of each container
\* cspec    spec of each container
\* ckv      the key-value store of that application
\* cwrites  per task, the payloads put under "init/<task>", in order
\* cseen    per container, the number of puts under each key when its wait
\*          returned
VARIABLES cpc, caddr, cspec, ckv, cwrites, cseen

dupvars == <<cpc, caddr, cspec, ckv, cwrites, cseen>>

vars == <<mainvars, sockvars, envvars, dupvars>>

(* ---------------------------------------------------------------------- *)
(* The key-value store.                                                    *)
(* ---------------------------------------------------------------------- *)
\* Faulty variant of the put: a key that is set keeps its value.
KVPutFirstWins(store, key, value) ==
    [k \in DOMAIN store \cup {key} |-> IF k \in DOMAIN store THEN store[k] ELSE value]

\* kv[stage + "/" + key] = value
KVPut(store, key, value) ==
    [k \in DOMAIN store \cup {key} |-> IF k = key THEN value ELSE store[k]]

\* The keys published under "<stage>/".
StageKeys(store, stage) == {k \in DOMAIN store : k[1] = stage}

(* ---------------------------------------------------------------------- *)
(* KVBarrier.                                                              *)
(* ---------------------------------------------------------------------- *)
KVBarrier(stage, num_workers, num_ps) ==
    [stage |-> stage, num_workers |-> num_workers, num_ps |-> num_ps]

\* The expected participant count of a barrier.
Expected(b) == b.num_workers + b.num_ps

\* The phase is complete: as many distinct keys as expected participants.
Complete(store, b) == Cardinality(StageKeys(store, b.stage)) = Expected(b)

\* The j-th smallest element of a finite set of integers (j from 1).
Nth(S, j) == CHOOSE i \in S : Cardinality({x \in S : x < i}) = j - 1

\* The Cluster Spec of a stage: the published payloads grouped by
\* task_type, each group in task_index order.
ClusterSpec(store, stage) ==
    LET keys == StageKeys(store, stage)
        roles == {TaskType(k[2]) : k \in keys}
        ids(r) == {TaskId(k[2]) : k \in {x \in keys : TaskType(x[2]) = r}}
    IN  [r \in roles |->
            [j \in 1 .. Cardinality(ids(r)) |-> store[<<stage, <<r, Nth(ids(r), j)>>>>]]]

(* ---------------------------------------------------------------------- *)
(* main, lines 86-89: the port allocator and the init barrier.             *)
(* ---------------------------------------------------------------------- *)
\* Faulty variants of the init barrier: the "ps" tasks left out, the
\* workers left out, one participant too many.
InitBarrierNoPs == KVBarrier("init", NumWorkers, 0)

InitBarrierNoWorkers == KVBarrier("init", 0, NumPs)

InitBarrierExtra == KVBarrier("init", NumWorkers + 1, NumPs)

\* init_barrier = KVBarrier(client.kv, "init", num_workers, num_ps)
InitBarrier == KVBarrier("init", NumWorkers, NumPs)

\* Faulty variants of the stop barrier: the stage of the init barrier
\* reused, the "ps" tasks left out.
StopBarrierInit == KVBarrier("init", NumWorkers, NumPs)

StopBarrierNoPs == KVBarrier("stop", NumWorkers, 0)

\* Faulty variant of the stop barrier: the workers left out.
StopBarrierNoWorkers == KVBarrier("stop", 0, NumPs)

\* Faulty variant of the stop barrier: one participant too many.
StopBarrierExtra == KVBarrier("stop", NumWorkers + 1, NumPs)

\* stop_barrier = KVBarrier(client.kv, "stop", num_workers, num_ps)
StopBarrier == KVBarrier("stop", NumWorkers, NumPs)

\* Faulty variant of the payload: the port left out.
AddrStringNoPort(a) == <<a[1], ":">>

\* f"{host}:{port}"
AddrString(a) == <<a[1], ":", a[2]>>

\* The addresses some open allocator holds a socket on.
Reserved == UNION {held[q] : q \in Tasks}

\* host, port = next(it): the allocator binds a socket on a free port of the
\* node the container runs on and keeps it open.
Alloc(p) ==
    /\ pc[p] = "start"
    /\ \E h \in Hosts, port \in Ports :
          /\ <<h, port>> \notin Reserved
          /\ addr' = [addr EXCEPT ![p] = <<h, port>>]
          /\ held' = [held EXCEPT ![p] = {<<h, port>>}]
    /\ pc' = [pc EXCEPT ![p] = "allocated"]
    /\ UNCHANGED <<kv, spec, environ, server, thread, raised, exc, err>>

\* next(it) on a node without a free port: the allocator raises and main
\* terminates with it.
AllocFail(p) ==
    /\ pc[p] = "start"
    /\ \E h \in Hosts : \A port \in Ports : <<h, port>> \in Reserved
    /\ pc' = [pc EXCEPT ![p] = "crashed"]
    /\ err' = [err EXCEPT ![p] = "OSError"]
    /\ UNCHANGED <<addr, held, kv, spec, environ, server, thread, raised, exc>>

\* Faulty variant of the publication: the index of the task is dropped from
\* the key.
InitPublishNoIndex(p) ==
    /\ pc[p] = "allocated"
    /\ kv' = KVPut(kv, <<InitBarrier.stage, <<TaskType(p), 0>>>>, AddrString(addr[p]))
    /\ pc' = [pc EXCEPT ![p] = "init_wait"]
    /\ UNCHANGED <<addr, held, spec, environ, server, thread, raised, exc, err>>

\* init_barrier.wait(task, f"{host}:{port}"), first half: publish the
\* payload under "init/<task>".
InitPublish(p) ==
    /\ pc[p] = "allocated"
    /\ kv' = KVPut(kv, <<InitBarrier.stage, p>>, AddrString(addr[p]))
    /\ pc' = [pc EXCEPT ![p] = "init_wait"]
    /\ UNCHANGED <<addr, held, spec, environ, server, thread, raised, exc, err>>

\* Faulty variant of the return from the init barrier: the allocator is
\* left open.
InitReturnNoClose(p) ==
    /\ pc[p] = "init_wait"
    /\ Complete(kv, InitBarrier)
    /\ spec' = [spec EXCEPT ![p] = ClusterSpec(kv, InitBarrier.stage)]
    /\ pc' = [pc EXCEPT ![p] = "topology_known"]
    /\ UNCHANGED <<addr, held, kv, environ, server, thread, raised, exc, err>>

\* init_barrier.wait, second half: block until the phase is complete, then
\* return the Cluster Spec; leaving the with block closes the allocator.
InitReturn(p) ==
    /\ pc[p] = "init_wait"
    /\ Complete(kv, InitBarrier)
    /\ spec' = [spec EXCEPT ![p] = ClusterSpec(kv, InitBarrier.stage)]
    /\ held' = [held EXCEPT ![p] = {}]
    /\ pc' = [pc EXCEPT ![p] = "topology_known"]
    /\ UNCHANGED <<addr, kv, environ, server, thread, raised, exc, err>>

(* ---------------------------------------------------------------------- *)
(* dispatch, lines 22-73.                                                  *)
(* ---------------------------------------------------------------------- *)
\* os.environ without TF_CONFIG, and with a TF_CONFIG the process inherited.
EmptyEnv == [k \in {} |-> ""]

InheritedEnv == [k \in {"TF_CONFIG"} |->
                    [cluster |-> NoSpec, task |-> <<"inherited", 0>>, environment |-> ""]]

\* fake_google_env = task_type != "evaluator" and task_type != "ps"
FakeGoogleEnv(task_type) == task_type # "evaluator" /\ task_type # "ps"

\* The TF_CONFIG dispatch builds (json.dumps of this structure).
TFConfig(task_type, task_id, cluster) ==
    [cluster |-> cluster,
     task |-> <<task_type, task_id>>,
     environment |-> IF FakeGoogleEnv(task_type) THEN "google" ELSE ""]

\* Faulty variant of the conflict test: an inherited value is overwritten.
XsetCollidesNever(env, key, value) == FALSE

\* xset_environ(**kwargs) raises when a key is already set to another value.
XsetCollides(env, key, value) == key \in DOMAIN env /\ env[key] # value

\* xset_environ(**kwargs) when it succeeds.
XsetEnviron(env, key, value) ==
    [k \in DOMAIN env \cup {key} |-> IF k = key THEN value ELSE env[k]]

\* Faulty variants of the test for an unattended role: every role, no role.
UnattendedAll(task_type) == task_type = task_type

UnattendedNone(task_type) == task_type # task_type

\* daemon=task_type == "ps"; "ps" tasks never terminate and therefore
\* cannot be joined.
Unattended(task_type) == task_type = "ps"

\* The outcomes of experiment_fn() and of the two assertions on its config.
ExperimentOutcomes == {"ok", "raises", "mismatch"}

\* dispatch up to thread.start(): set TF_CONFIG, build the experiment, check
\* its config, start tf.train.Server (if fake_google_env) and the thread.
\* The os.environ the process inherited is an input, read here for the
\* first time; an exception of any of these steps ends main.
DispatchStart(p) ==
    /\ pc[p] = "topology_known"
    /\ \E env \in {EmptyEnv, InheritedEnv}, outcome \in ExperimentOutcomes :
          LET cfg == TFConfig(TaskType(p), TaskId(p), spec[p]) IN
          IF XsetCollides(env, "TF_CONFIG", cfg)
          THEN /\ environ' = [environ EXCEPT ![p] = env]
               /\ err' = [err EXCEPT ![p] = "RuntimeError"]
               /\ pc' = [pc EXCEPT ![p] = "crashed"]
               /\ UNCHANGED <<server, thread>>
          ELSE /\ environ' = [environ EXCEPT ![p] = XsetEnviron(env, "TF_CONFIG", cfg)]
               /\ IF outcome = "ok"
                  THEN /\ server' = [server EXCEPT ![p] = FakeGoogleEnv(TaskType(p))]
                       /\ thread' = [thread EXCEPT ![p] = "running"]
                       /\ pc' = [pc EXCEPT ![p] = "started"]
                       /\ UNCHANGED err
                  ELSE /\ err' = [err EXCEPT ![p] =
                                    IF outcome = "raises" THEN "ExperimentError"
                                    ELSE "AssertionError"]
                       /\ pc' = [pc EXCEPT ![p] = "crashed"]
                       /\ UNCHANGED <<server, thread>>
    /\ UNCHANGED <<addr, held, kv, spec, raised, exc>>

\* The ways the unit of work of a task can end: by raising a failure or,
\* except for "ps" tasks, which do not terminate by themselves, normally.
UnitOutcomes(task_type) == IF task_type = "ps" THEN Failures ELSE {NoExc} \cup Failures

\* MonitoredThread.run: the unit of work ends and the thread captures the
\* failure it raised, if any.  A daemon thread dies with its process.
UnitFinish(p) ==
    /\ thread[p] = "running"
    /\ pc[p] \notin {"done", "failed"}
    /\ \E outcome \in UnitOutcomes(TaskType(p)) :
          /\ raised' = [raised EXCEPT ![p] = outcome]
          /\ exc' = [exc EXCEPT ![p] = outcome]
    /\ thread' = [thread EXCEPT ![p] = "finished"]
    /\ UNCHANGED <<pc, addr, held, kv, spec, environ, server, err>>

\* Faulty variant of the join: dispatch returns without waiting.
JoinNoWait(p) == pc[p] = "started"

\* if task_type != "ps": thread.join()
\* The condition under which dispatch gets past the join and returns.
Join(p) == Unattended(TaskType(p)) \/ thread[p] = "finished"

(* ---------------------------------------------------------------------- *)
(* main, lines 92-95: the stop barrier and the captured failure.           *)
(* ---------------------------------------------------------------------- *)
\* The rest of dispatch and stop_barrier.wait(task), first half: once the
\* join is over dispatch returns the thread and main publishes the default
\* payload under "stop/<task>".
StopPublish(p) ==
    /\ pc[p] = "started"
    /\ Join(p)
    /\ kv' = KVPut(kv, <<StopBarrier.stage, p>>, EmptyString)
    /\ pc' = [pc EXCEPT ![p] = "stop_wait"]
    /\ UNCHANGED <<addr, held, spec, environ, server, thread, raised, exc, err>>

\* Faulty variant of the end of main: the captured failure is swallowed.
FinishSwallow(p) ==
    /\ pc[p] = "stop_wait"
    /\ Complete(kv, StopBarrier)
    /\ pc' = [pc EXCEPT ![p] = "done"]
    /\ UNCHANGED <<addr, held, kv, spec, environ, server, thread, raised, exc, err>>

\* Faulty variant of the end of main: the exception is raised unchecked, and
\* raising None is a TypeError.
FinishRaiseUnchecked(p) ==
    /\ pc[p] = "stop_wait"
    /\ Complete(kv, StopBarrier)
    /\ err' = [err EXCEPT ![p] = IF exc[p] # NoExc THEN exc[p] ELSE "TypeError"]
    /\ pc' = [pc EXCEPT ![p] = "failed"]
    /\ UNCHANGED <<addr, held, kv, spec, environ, server, thread, raised, exc>>

\* stop_barrier.wait, second half: block until the phase is complete; then
\* if thread.exception() is not None: raise thread.exception()
Finish(p) ==
    /\ pc[p] = "stop_wait"
    /\ Complete(kv, StopBarrier)
    /\ IF exc[p] # NoExc
       THEN /\ err' = [err EXCEPT ![p] = exc[p]]
            /\ pc' = [pc EXCEPT ![p] = "failed"]
       ELSE /\ pc' = [pc EXCEPT ![p] = "done"]
            /\ UNCHANGED err
    /\ UNCHANGED <<addr, held, kv, spec, environ, server, thread, raised, exc>>

(* ---------------------------------------------------------------------- *)
(* iter_available_sock_addrs on its own, as the test uses it               *)
(* (tests/test__internal.py, lines 18-29).                                 *)
(* ---------------------------------------------------------------------- *)
\* The number of ports of the node of the test.
NumPorts == 3

\* for _ in range(5): the number of addresses the test draws.
NumDraws == 5

\* The addresses of the node the sequence runs on.
TestAddrs == {"h1"} \X (6000 .. 6000 + NumPorts - 1)

\* The elements of a sequence.
Range(seq) == {seq[i] : i \in 1 .. Len(seq)}

\* No third-party bind yet.
NoBind == [addr |-> <<"", 0>>, res |-> "none"]

\* Faulty variant of the bind: only the sockets of third parties count.
InUseOthersOnly(own, others) == others

\* The addresses a bind fails on with EADDRINUSE: those some socket of the
\* node is bound to.
InUse(own, others) == own \cup others

\* Faulty variant of the reservation: the socket is closed once yielded.
HoldNone(own, a) == own

\* The sequence keeps the socket of a yielded address open.
Hold(own, a) == own \cup {a}

\* Faulty variant of the close: the sockets stay open.
ReleaseNone(own) == own

\* Closing the sequence closes every socket it holds.
Release(own) == {}

\* next(it) on the open sequence: bind a socket on a free port and yield
\* its address.
Draw ==
    /\ it_state = "open"
    /\ Len(yielded) < NumDraws
    /\ \E a \in TestAddrs \ InUse(socks, foreign) :
          /\ yielded' = Append(yielded, a)
          /\ socks' = Hold(socks, a)
    /\ next_res' = "yielded"
    /\ UNCHANGED <<it_state, foreign, bind_log>>

\* next(it) when the node has no free port: the allocation fails, the error
\* leaves the with block and closing() closes the sequence.
DrawExhausted ==
    /\ it_state = "open"
    /\ TestAddrs \ InUse(socks, foreign) = {}
    /\ next_res' = "OSError"
    /\ it_state' = "closed"
    /\ socks' = Release(socks)
    /\ UNCHANGED <<yielded, foreign, bind_log>>

\* next(it) on the closed sequence: StopIteration, nothing is yielded.
DrawClosed ==
    /\ it_state = "closed"
    /\ next_res' = "StopIteration"
    /\ UNCHANGED <<it_state, yielded, socks, foreign, bind_log>>

\* The end of "with closing(iter_available_sock_addrs()) as it:".
Close ==
    /\ it_state = "open"
    /\ it_state' = "closed"
    /\ socks' = Release(socks)
    /\ UNCHANGED <<yielded, foreign, next_res, bind_log>>

\* s.bind((host, port)) by a third party: EADDRINUSE if a socket of the node
\* is bound to the address, else the third party holds it.
ThirdPartyBind(a) ==
    /\ IF a \in InUse(socks, foreign)
       THEN /\ bind_log' = [addr |-> a, res |-> "EADDRINUSE"]
            /\ UNCHANGED foreign
       ELSE /\ bind_log' = [addr |-> a, res |-> "ok"]
            /\ foreign' = foreign \cup {a}
    /\ UNCHANGED <<it_state, yielded, socks, next_res>>

\* A third party closes a socket it had bound.
ThirdPartyClose(a) ==
    /\ a \in foreign
    /\ foreign' = foreign \ {a}
    /\ UNCHANGED <<it_state, yielded, socks, next_res, bind_log>>

\* A fresh sequence on a node none of whose ports is bound.
SockInit ==
    /\ it_state = "open"
    /\ yielded = << >>
    /\ socks = {}
    /\ foreign = {}
    /\ next_res = "none"
    /\ bind_log = NoBind

(* ---------------------------------------------------------------------- *)
(* xset_environ on its own, as the tests use it                            *)
(* (tests/test__internal.py, lines 32-43).                                 *)
(* ---------------------------------------------------------------------- *)
\* The variable and the values of the tests, and two more variables.
TestKeys == {"foo", "bar", "TF_CONFIG"}

TestValues == {"bar", "boo"}

\* Every os.environ over these, {} and {"foo": "bar"} among them.
TestEnvs == UNION {[K -> TestValues] : K \in SUBSET TestKeys}

\* Every **kwargs over these that names a key, foo="boo" among them.
TestKwargs == TestEnvs \ {EmptyEnv}

\* xset_environ(**kwargs) raises when one of its keys collides.
XsetAnyCollides(env, kwargs) ==
    \E k \in DOMAIN kwargs : XsetCollides(env, k, kwargs[k])

\* xset_environ(**kwargs) when it succeeds: the keys are set one by one.
RECURSIVE XsetUpdate(_, _, _)
XsetUpdate(env, kwargs, keys) ==
    IF keys = {} THEN env
    ELSE LET k == CHOOSE x \in keys : TRUE
         IN  XsetUpdate(XsetEnviron(env, k, kwargs[k]), kwargs, keys \ {k})

\* monkeypatch.setattr(os, "environ", env)
Monkeypatch(env) ==
    /\ os_environ' = env
    /\ xset_kwargs' = EmptyEnv
    /\ xset_res' = "none"

\* xset_environ(**kwargs)
XsetCall(kwargs) ==
    /\ xset_kwargs' = kwargs
    /\ IF XsetAnyCollides(os_environ, kwargs)
       THEN /\ xset_res' = "RuntimeError"
            /\ UNCHANGED os_environ
       ELSE /\ xset_res' = "ok"
            /\ os_environ' = XsetUpdate(os_environ, kwargs, DOMAIN kwargs)

\* Before the tests: nothing is set, nothing was called.
EnvInit ==
    /\ os_environ = EmptyEnv
    /\ xset_kwargs = EmptyEnv
    /\ xset_res = "none"

(* ---------------------------------------------------------------------- *)
(* main, lines 81-89, when two containers carry the same task identity.    *)
(* ---------------------------------------------------------------------- *)
\* The task identity two containers carry.
DupTask == <<"worker", 0>>

\* The containers: one per task, and a second one for DupTask.
Containers == {<<t[1], t[2], "first">> : t \in Tasks}
                 \cup {<<DupTask[1], DupTask[2], "second">>}

\* task = os.environ["SKEIN_CONTAINER_ID"] of container c.
TaskOf(c) == <<c[1], c[2]>>

\* The addresses some container holds a socket on: from next(it) to the end
\* of the with block.
CReserved == {caddr[c] : c \in {d \in Containers : cpc[d] \in {"allocated", "init_wait"}}}

\* host, port = next(it)
DupAlloc(c) ==
    /\ cpc[c] = "start"
    /\ \E h \in Hosts, port \in Ports :
          /\ <<h, port>> \notin CReserved
          /\ caddr' = [caddr EXCEPT ![c] = <<h, port>>]
    /\ cpc' = [cpc EXCEPT ![c] = "allocated"]
    /\ UNCHANGED <<cspec, ckv, cwrites, cseen>>

\* init_barrier.wait(task, f"{host}:{port}"), first half: the put.
DupPublish(c) ==
    /\ cpc[c] = "allocated"
    /\ ckv' = KVPut(ckv, <<InitBarrier.stage, TaskOf(c)>>, AddrString(caddr[c]))
    /\ cwrites' = [cwrites EXCEPT ![TaskOf(c)] = Append(@, AddrString(caddr[c]))]
    /\ cpc' = [cpc EXCEPT ![c] = "init_wait"]
    /\ UNCHANGED <<caddr, cspec, cseen>>

\* init_barrier.wait, second half: return once the phase is complete.
DupReturn(c) ==
    /\ cpc[c] = "init_wait"
    /\ Complete(ckv, InitBarrier)
    /\ cspec' = [cspec EXCEPT ![c] = ClusterSpec(ckv, InitBarrier.stage)]
    /\ cseen' = [cseen EXCEPT ![c] = [t \in Tasks |-> Len(cwrites[t])]]
    /\ cpc' = [cpc EXCEPT ![c] = "topology_known"]
    /\ UNCHANGED <<caddr, ckv, cwrites>>

\* No container has started.
DupInit ==
    /\ cpc = [c \in Containers |-> "start"]
    /\ caddr = [c \in Containers |-> NoAddr]
    /\ cspec = [c \in Containers |-> NoSpec]
    /\ ckv = [k \in {} |-> EmptyString]
    /\ cwrites = [t \in Tasks |-> << >>]
    /\ cseen = [c \in Containers |-> [t \in Tasks |-> 0]]

(* ---------------------------------------------------------------------- *)
(* The specification.                                                      *)
(* ---------------------------------------------------------------------- *)
Init ==
    /\ pc = [p \in Tasks |-> "start"]
    /\ addr = [p \in Tasks |-> NoAddr]
    /\ held = [p \in Tasks |-> {}]
    /\ kv = [k \in {} |-> EmptyString]
    /\ spec = [p \in Tasks |-> NoSpec]
    /\ environ = [p \in Tasks |-> EmptyEnv]
    /\ server = [p \in Tasks |-> FALSE]
    /\ thread = [p \in Tasks |-> "new"]
    /\ raised = [p \in Tasks |-> NoExc]
    /\ exc = [p \in Tasks |-> NoExc]
    /\ err = [p \in Tasks |-> NoExc]
    /\ SockInit
    /\ EnvInit
    /\ DupInit

\* The steps of the orchestrator process of task p.
Orchestrator(p) ==
    \/ Alloc(p)
    \/ AllocFail(p)
    \/ InitPublish(p)
    \/ InitReturn(p)
    \/ DispatchStart(p)
    \/ StopPublish(p)
    \/ Finish(p)

Next ==
    /\ \E p \in Tasks : Orchestrator(p) \/ UnitFinish(p)
    /\ UNCHANGED <<sockvars, envvars, dupvars>>

Spec == Init /\ [][Next]_vars

\* The orchestrator processes are scheduled: while one of them can take a
\* step, one of them eventually does.  A unit of work need not finish.
FairSpec ==
    Spec /\ WF_vars((\E p \in Tasks : Orchestrator(p))
                      /\ UNCHANGED <<sockvars, envvars, dupvars>>)

\* Moreover the unit of work of every worker terminates, normally or by
\* raising.  The unit of a "ps" task need not.
FairTermSpec ==
    FairSpec /\ WF_vars((\E p \in Tasks : TaskType(p) = "worker" /\ UnitFinish(p))
                          /\ UNCHANGED <<sockvars, envvars, dupvars>>)

\* One port allocator sequence and the third parties of its node.
SockNext ==
    /\ \/ Draw
       \/ DrawExhausted
       \/ DrawClosed
       \/ Close
       \/ \E a \in TestAddrs : ThirdPartyBind(a) \/ ThirdPartyClose(a)
    /\ UNCHANGED <<mainvars, envvars, dupvars>>

SockSpec == Init /\ [][SockNext]_vars

\* The xset_environ tests: os.environ is patched, xset_environ is called.
EnvNext ==
    /\ \/ \E env \in TestEnvs : Monkeypatch(env)
       \/ \E kwargs \in TestKwargs : XsetCall(kwargs)
    /\ UNCHANGED <<mainvars, sockvars, dupvars>>

EnvSpec == Init /\ [][EnvNext]_vars

\* The init phase of an application one of whose task identities is carried
\* by two containers.
DupNext ==
    /\ \E c \in Containers : DupAlloc(c) \/ DupPublish(c) \/ DupReturn(c)
    /\ UNCHANGED <<mainvars, sockvars, envvars>>

DupSpec == Init /\ [][DupNext]_vars

(* ---------------------------------------------------------------------- *)
(* Properties.                                                             *)
(* ---------------------------------------------------------------------- *)
\* The participants of the worker role, which is not unattended, and those
\* of the unattended "ps" role.
Workers == {p \in Tasks : TaskType(p) = "worker"}

PsTasks == {p \in Tasks : TaskType(p) = "ps"}

\* Task p has published its key under "<stage>/".
Published(stage, p) == <<stage, p>> \in DOMAIN kv

\* init_barrier.wait has returned to p; stop_barrier.wait has returned to p.
InitReturned(p) == pc[p] \in {"topology_known", "started", "stop_wait", "done", "failed"}
                   \/ (pc[p] = "crashed" /\ err[p] # "OSError")

StopReturned(p) == pc[p] \in {"done", "failed"}

\* C1: init_barrier.wait never returns to a participant while some expected
\* task has not yet published its key under init/.
C1_InitBarrierSafe ==
    \A p \in Tasks : InitReturned(p) => \A q \in Tasks : Published("init", q)

\* C1 witness: the wait has returned to one participant while another one,
\* which has published, is still polling.
C1_Witness ==
    \E p, q \in Tasks : InitReturned(p) /\ pc[q] = "init_wait"

\* C2: any two participants whose init_barrier.wait has returned hold the
\* same Cluster Spec.
C2_SameClusterSpec ==
    \A p, q \in Tasks : InitReturned(p) /\ InitReturned(q) => spec[p] = spec[q]

\* C2 witness: the wait has returned to two participants, one of which has
\* already gone on to publish its stop key.
C2_Witness ==
    \E p, q \in Tasks :
        /\ p # q
        /\ pc[p] = "topology_known"
        /\ Published("stop", q)

\* C3: the Cluster Spec returned by init_barrier.wait has exactly the roles
\* and the number of entries of the run, and the entry at position i of
\* role t is the address "host:port" of participant (t, i).
C3_ClusterSpecExact ==
    \A p \in Tasks : InitReturned(p) =>
        /\ DOMAIN spec[p] = {TaskType(q) : q \in Tasks}
        /\ \A r \in DOMAIN spec[p] :
              DOMAIN spec[p][r] = 1 .. Cardinality({q \in Tasks : TaskType(q) = r})
        /\ \A q \in Tasks :
              spec[p][TaskType(q)][TaskId(q) + 1] = <<addr[q][1], ":", addr[q][2]>>

\* C3 witness: a returned Cluster Spec in which two workers of the same
\* node sit at positions 0 and 1.
C3_Witness ==
    \E p \in Tasks :
        /\ InitReturned(p)
        /\ NumWorkers >= 2
        /\ addr[<<"worker", 0>>][1] = addr[<<"worker", 1>>][1]
        /\ spec[p]["worker"][2] = <<addr[<<"worker", 1>>][1], ":", addr[<<"worker", 1>>][2]>>

\* C4: once all expected participants have called init_barrier.wait
\* (published their key), every one of the calls eventually returns.
C4_InitBarrierLive ==
    (\A p \in Tasks : Published("init", p)) ~> (\A p \in Tasks : InitReturned(p))

\* C4 witness: all calls have returned.
C4_Witness == \A p \in Tasks : Published("init", p) /\ InitReturned(p)

\* C5: stop_barrier.wait does not return to a participant until all expected
\* participants have called it and published their stop key.
C5_StopBarrierSafe ==
    \A p \in Tasks : StopReturned(p) =>
        \A q \in Tasks : Published("stop", q) /\ pc[q] \in {"stop_wait", "done", "failed"}

\* C5 witness: the wait has returned to one participant while another is
\* still polling.
C5_Witness ==
    \E p, q \in Tasks : StopReturned(p) /\ pc[q] = "stop_wait"

\* C6: no participant starts tf.train.Server or its unit of work before every
\* expected participant has published its address under init/.
C6_NoStartBeforeTopology ==
    \A p \in Tasks : (server[p] \/ thread[p] # "new") =>
        \A q \in Tasks : Published("init", q)

\* C6 witness: a worker has started its server and its unit of work while
\* another participant has not yet returned from the init barrier.
C6_Witness ==
    \E p, q \in Tasks : server[p] /\ thread[p] = "running" /\ pc[q] = "init_wait"

\* C7: a participant of a non-unattended role publishes its stop key only
\* after its unit of work has finished, so when stop_barrier.wait returns to
\* anyone the unit of work of every such participant has terminated.
C7_StopAfterUnit ==
    /\ \A p \in Workers : Published("stop", p) => thread[p] = "finished"
    /\ \A p \in Tasks : StopReturned(p) => \A q \in Workers : thread[q] = "finished"

\* C7 witness: the stop barrier has returned to a participant in a run with
\* at least one non-unattended participant.
C7_Witness ==
    \E p \in Tasks, q \in Workers : StopReturned(p) /\ Published("stop", q)

\* C8: a worker whose unit of work raised is not kept from publishing its
\* stop key nor, once every participant has published, from leaving the stop
\* barrier; main terminates with the failure the unit of work raised, only
\* after the stop barrier is complete, and normally if nothing was captured.
C8_ReraiseAfterStop ==
    /\ \A p \in Workers :
          /\ (raised[p] \in Failures /\ pc[p] = "started") => ENABLED StopPublish(p)
          /\ (raised[p] \in Failures /\ pc[p] = "stop_wait"
                  /\ \A q \in Tasks : Published("stop", q)) => ENABLED Finish(p)
          /\ (raised[p] \in Failures /\ pc[p] \in {"done", "failed"})
                => pc[p] = "failed" /\ err[p] = raised[p]
    /\ \A p \in Tasks :
          /\ pc[p] = "failed" => /\ err[p] = exc[p]
                                 /\ err[p] \in Failures
                                 /\ \A q \in Tasks : Published("stop", q)
          /\ pc[p] = "done" => exc[p] = NoExc /\ err[p] = NoExc

\* C8 witness: a worker has terminated with the failure of its unit of work
\* while another participant has terminated normally.
C8_Witness ==
    \E p \in Workers, q \in Tasks :
        /\ pc[p] = "failed" /\ err[p] = "E2" /\ raised[p] = "E2"
        /\ pc[q] = "done"

\* C9: thread.exception() is None while the unit of work has not finished
\* and when it finished normally, and is the failure raised otherwise; the
\* join of a non-unattended unit returns without raising, after which the
\* thread has finished.
C9_MonitoredResult ==
    \A p \in Tasks :
        /\ thread[p] # "finished" => exc[p] = NoExc
        /\ thread[p] = "finished" => exc[p] = raised[p]
        /\ exc[p] \in {NoExc} \cup Failures
        /\ (p \in Workers /\ pc[p] = "stop_wait")
              => thread[p] = "finished" /\ err[p] = NoExc

\* C9 witness: the join has returned in a worker whose unit of work raised.
C9_Witness ==
    \E p \in Workers : pc[p] = "stop_wait" /\ exc[p] \in Failures /\ err[p] = NoExc

\* C10: the orchestrator of a "ps" task never blocks on its unit of work:
\* once the thread is started, dispatch can return and main go on to the
\* stop barrier, whether or not the unit of work has finished.
C10_PsNotJoined ==
    \A p \in PsTasks : pc[p] = "started" => ENABLED StopPublish(p)

\* C10 witness: a "ps" orchestrator waits in the stop barrier while its unit
\* of work is still running.
C10_Witness ==
    \E p \in PsTasks : pc[p] = "stop_wait" /\ thread[p] = "running"

C12_ClosedBeforeWait ==
    \A p \in Tasks : pc[p] = "init_wait" => held[p] = {}

\* C12 amended: the allocator holds the socket of the address taken from
\* next(it) until init_barrier.wait returns, the wait included, and holds
\* nothing from then on (dispatch runs with the socket closed).
C12_HeldUntilInitReturn ==
    \A p \in Tasks :
        /\ pc[p] \in {"allocated", "init_wait"} => held[p] = {addr[p]}
        /\ pc[p] \notin {"allocated", "init_wait"} => held[p] = {}
        /\ (server[p] \/ thread[p] # "new") => held[p] = {}

\* C12 witness: one participant is blocked in the init barrier wait with its
\* socket held while another has returned from it and holds none.
C12_Witness ==
    \E p, q \in Tasks :
        /\ pc[p] = "init_wait" /\ held[p] = {addr[p]}
        /\ pc[q] = "topology_known" /\ held[q] = {}

\* C13: the addresses one open sequence has yielded are pairwise distinct.
C13_YieldedDistinct ==
    \A i, j \in 1 .. Len(yielded) : i # j => yielded[i] # yielded[j]

\* C13 witness: the open sequence has yielded an address for every port of
\* the node.
C13_Witness == it_state = "open" /\ Len(yielded) = NumPorts

\* C14: while the sequence is open it holds a socket on every address it has
\* yielded, and a bind of a third party to such an address fails with
\* EADDRINUSE, whatever was drawn or bound in between.
C14_BindFailsWhileOpen ==
    /\ [](it_state = "open" => Range(yielded) \subseteq socks /\ socks \cap foreign = {})
    /\ [][\A a \in TestAddrs :
            (it_state = "open" /\ a \in Range(yielded) /\ ThirdPartyBind(a))
                => (bind_log'.res = "EADDRINUSE" /\ foreign' = foreign)]_vars

\* C14 witness: a third party was refused an address of the open sequence,
\* which has gone on to yield another one since.
C14_Witness ==
    /\ it_state = "open"
    /\ Len(yielded) >= 2
    /\ bind_log.res = "EADDRINUSE"
    /\ bind_log.addr = yielded[1]
    /\ foreign = {}

\* C15: the closed sequence holds no socket and stays closed without
\* yielding again, and a third party can bind an address it had yielded
\* (unless another third party holds that address).
C15_CloseReleases ==
    /\ [](it_state = "closed" => socks = {})
    /\ [][it_state = "closed" => (it_state' = "closed" /\ yielded' = yielded)]_vars
    /\ [][\A a \in TestAddrs :
            (it_state = "closed" /\ a \in Range(yielded) /\ a \notin foreign
                /\ ThirdPartyBind(a))
                => (bind_log'.res = "ok" /\ a \in foreign')]_vars

\* C15 witness: after the close a third party has bound an address the
\* sequence had yielded, and a further next(it) yielded nothing.
C15_Witness ==
    /\ it_state = "closed"
    /\ bind_log.res = "ok"
    /\ bind_log.addr \in Range(yielded)
    /\ bind_log.addr \in foreign
    /\ next_res = "StopIteration"

\* C16: a call of xset_environ none of whose keys is set yet sets every key
\* to its value at once and leaves the other variables alone; a call one of
\* whose keys is set to a different value raises and changes nothing.
C16_XsetAllOrNothing ==
    [][\A kwargs \in TestKwargs :
         XsetCall(kwargs) =>
            /\ DOMAIN kwargs \cap DOMAIN os_environ = {} =>
                  /\ xset_res' = "ok"
                  /\ DOMAIN os_environ' = DOMAIN os_environ \cup DOMAIN kwargs
                  /\ \A k \in DOMAIN kwargs : os_environ'[k] = kwargs[k]
                  /\ \A k \in DOMAIN os_environ : os_environ'[k] = os_environ[k]
            /\ (\E k \in DOMAIN kwargs \cap DOMAIN os_environ :
                    os_environ[k] # kwargs[k]) =>
                  /\ xset_res' = "RuntimeError"
                  /\ os_environ' = os_environ]_vars

\* C16 witness: a call with two keys, one unset and one set to a different
\* value, has raised, and neither key was touched.
C16_Witness ==
    /\ xset_res = "RuntimeError"
    /\ xset_kwargs = [k \in {"foo", "bar"} |-> "boo"]
    /\ os_environ = [k \in {"foo"} |-> "bar"]

\* The orchestrator states of spec 5 as positions of main: START,
\* ADDRESS_ALLOCATED (before and inside the init wait), TOPOLOGY_KNOWN,
\* RUNNING, STOPPING, DONE and FAILED, in the order of the state machine.
StateOrder ==
    {<<"start", "allocated">>, <<"allocated", "init_wait">>,
     <<"init_wait", "topology_known">>, <<"topology_known", "started">>,
     <<"started", "stop_wait">>, <<"stop_wait", "done">>,
     <<"stop_wait", "failed">>}

\* The positions at which main ends with an exception that is not the
\* captured failure of the unit of work: next(it) and dispatch.
CrashOrder == {<<"start", "crashed">>, <<"topology_known", "crashed">>}

C18_OwnKeyOncePerPhase ==
    /\ [][/\ \A k \in DOMAIN kv : k \in DOMAIN kv' /\ kv'[k] = kv[k]
          /\ Cardinality(DOMAIN kv' \ DOMAIN kv) <= 1
          /\ \A k \in DOMAIN kv' \ DOMAIN kv :
                /\ k[1] \in {"init", "stop"}
                /\ k[2] \in Tasks
                /\ pc'[k[2]] # pc[k[2]]
                /\ \A q \in Tasks \ {k[2]} : pc'[q] = pc[q]
                /\ pc'[k[2]] = IF k[1] = "init" THEN "init_wait" ELSE "stop_wait"]_vars
    /\ [](\A p \in Tasks :
            /\ pc[p] \in {"start", "allocated"} => ~Published("init", p)
            /\ pc[p] \in {"start", "allocated", "init_wait", "topology_known", "started"}
                  => ~Published("stop", p))
    /\ [](\A k \in DOMAIN kv :
            /\ KVPut(kv, k, kv[k]) = kv
            /\ Complete(KVPut(kv, k, kv[k]), InitBarrier) = Complete(kv, InitBarrier)
            /\ Complete(KVPut(kv, k, kv[k]), StopBarrier) = Complete(kv, StopBarrier))

\* C18 witness: every participant has written both of its keys.
C18_Witness ==
    /\ \A p \in Tasks : Published("init", p) /\ Published("stop", p)
    /\ Cardinality(DOMAIN kv) = 2 * Cardinality(Tasks)

\* The payload a Cluster Spec has at the position of task t.
PayloadAt(cluster, t) == cluster[TaskType(t)][TaskId(t) + 1]

====
